---- MODULE Spec2Model ----
(***************************************************************************)
(* Model of the task execution engine of gapps-integrations:               *)
(*   utils/decorators.py    the @task wrapper                              *)
(*   utils/base_runner.py   TaskContext and BaseRunner.StageTwo.start      *)
(*   utils/task_registry.py register_tasks                                 *)
(*                                                                         *)
(* Function names (the attribute names register_tasks attaches tasks       *)
(* under) and task names are small integers; dir() lists attributes in     *)
(* alphabetical order, which is ascending order of these integers.         *)
(* The runs of Spec register tasks whose names are unique and equal to     *)
(* their function names, as the hello_world integration does.              *)
(*                                                                         *)
(* The wrapper runs in the executor's worker thread and start() in the     *)
(* caller's: wpc and opc are their positions. A body that is slow or never *)
(* returns is a Body step that is late or never taken.                     *)
(***************************************************************************)
EXTENDS Integers, Sequences, FiniteSets, TLC

\* ------------------------------------------------------------------ bounds
NumGhosts == 1     \* names a depends_on list mentions that no task carries
MaxOrder == 1      \* explicit `order` arguments range over 1..MaxOrder
MaxDeps == 2       \* longest depends_on list

\* ------------------------------------------------- program constants
CollectorOrder == 100
InsightOrder == 500

\* the runs modelled register two task functions
Funcs == {1, 2}
\* names a depends_on list may mention: the registered tasks and names that
\* no registered task carries
Ghosts == {Cardinality(Funcs) + g : g \in 1..NumGhosts}
DepNames == Funcs \cup Ghosts
Unknown == 0       \* getattr(self, "_current_task", "unknown")

VARIABLES
    reg,           \* the decorated functions in the order register_tasks met them
    attrs,         \* StageTwo class attributes: function name -> task metadata
    requested,     \* config["tasks"]
    opc,           \* where StageTwo.start is
    task_methods,  \* the sorted list start() iterates over
    idx,           \* position of the for loop in task_methods
    wpc,           \* where the wrapper running in the executor's thread is
    wsuccess,      \* the wrapper's local `success`
    wret,          \* the value the wrapper returned
    wvalue,        \* the wrapper's local task_return_value, or that the body raised
    debug,         \* Config.DEBUG
    registry,      \* ctx.registry, the InsightControlRegistry
    ctx,           \* the TaskContext of the run
    started,       \* history: names in the order their wrapper was submitted
    invoked,       \* history: names whose body was invoked
    circuited,     \* history: names the except branch of start() recorded
    attempts,      \* history: create_violation calls made by the wrapper, per name
    posts,         \* history: the outcomes of the violation POSTs issued, per name
    logged,        \* history: what the wrapper's except branch logged, per name
    observed       \* history: the last format_result call of a task body

vars == <<reg, attrs, requested, opc, task_methods, idx, wpc, wsuccess, wret,
          wvalue, debug, registry, ctx, started, invoked, circuited, attempts, posts,
          logged, observed>>

cfgVars == <<reg, attrs, requested, debug, registry>>
histVars == <<started, invoked, circuited, attempts, posts, logged, observed>>

\* ------------------------------------------------------------- helpers
\* d[k] = v for a Python dict d
Put(f, k, v) == [x \in (DOMAIN f) \cup {k} |-> IF x = k THEN v ELSE f[x]]
\* d.get(k, dflt)
Get(f, k, dflt) == IF k \in DOMAIN f THEN f[k] ELSE dflt
EmptyMap == [x \in {} |-> 0]

Range(s) == {s[i] : i \in DOMAIN s}

\* sequences over S without repetition, of length at most n
DistinctSeqs(S, n) ==
    {s \in UNION {[1..k -> S] : k \in 0..n} :
        \A i, j \in DOMAIN s : i # j => s[i] # s[j]}

\* ------------------------------------------------ decorators.py: metadata
\* order_arg is <<>> for order=None and <<k>> for order=k
TaskMetadata(fn, name, enabled, type, order_arg, depends_on) ==
    [fn |-> fn, name |-> name, enabled |-> enabled, type |-> type,
     order |-> IF order_arg # <<>> THEN order_arg[1]
               ELSE IF type = "insight" THEN InsightOrder ELSE CollectorOrder,
     depends_on |-> depends_on]

\* --------------------------------------------- task_registry.py: register
\* setattr(runner_class.StageTwo, attr.__name__, attr) for each function met
RECURSIVE register_tasks(_, _)
register_tasks(cls, fns) ==
    IF fns = <<>> THEN cls
    ELSE register_tasks(Put(cls, Head(fns).fn, Head(fns)), Tail(fns))

\* ------------------------------------------- base_runner.py: task list
\* dir(self): the attribute names in ascending order
RECURSIVE Dir(_)
Dir(names) ==
    IF names = {} THEN <<>>
    ELSE LET least == CHOOSE n \in names : \A m \in names : n <= m
         IN <<least>> \o Dir(names \ {least})

\* the list comprehension of start(): the enabled task methods in dir() order
EnabledMethods(cls) ==
    LET names == Dir(DOMAIN cls)
        keep == {i \in DOMAIN names : cls[names[i]].enabled}
        RECURSIVE Pick(_)
        Pick(i) == IF i > Len(names) THEN <<>>
                   ELSE (IF i \in keep THEN <<cls[names[i]]>> ELSE <<>>) \o Pick(i + 1)
    IN Pick(1)

\* faulty variant: insert m before the elements of equal order, reversing ties
RECURSIVE InsertByOrder_BeforeTies(_, _)
InsertByOrder_BeforeTies(sorted, m) ==
    IF sorted = <<>> THEN <<m>>
    ELSE IF Head(sorted).order < m.order
         THEN <<Head(sorted)>> \o InsertByOrder_BeforeTies(Tail(sorted), m)
         ELSE <<m>> \o sorted

\* insert m behind every element whose order is not greater (keeps ties in place)
RECURSIVE InsertByOrder(_, _)
InsertByOrder(sorted, m) ==
    IF sorted = <<>> THEN <<m>>
    ELSE IF Head(sorted).order <= m.order
         THEN <<Head(sorted)>> \o InsertByOrder(Tail(sorted), m)
         ELSE <<m>> \o sorted

\* faulty variant: the sort left out
SortByOrder_Unsorted(ms) == ms

\* task_methods.sort(key=order): Python's sort is stable
RECURSIVE SortByOrder(_)
SortByOrder(ms) ==
    IF ms = <<>> THEN <<>>
    ELSE InsertByOrder(SortByOrder(SubSeq(ms, 1, Len(ms) - 1)), ms[Len(ms)])

TaskMethods(cls) == SortByOrder(EnabledMethods(cls))

\* --------------------------------------------- base_runner.py: TaskContext
\* a task body's return value, kept as the facts the wrapper inspects:
\*   isDict     isinstance(value, dict)
\*   data       "absent" | "dict" | "list" | "other"
\*   violation  "absent" | "true" | "false" | "other"
\*   message    "absent" | "none" | "str" | "other"
\*   extra      the dict has keys besides data, violation and message
Value(isDict, data, violation, message, extra) ==
    [isDict |-> isDict, data |-> data, violation |-> violation,
     message |-> message, extra |-> extra]

EmptyDict == Value(TRUE, "absent", "absent", "absent", FALSE)

\* an error string: its text and the name it mentions (Unknown when none)
Err(msg, arg) == [msg |-> msg, arg |-> arg]

\* the Python value False, which has no .get
BoolFalse == [kind |-> "bool", value |-> FALSE]

\* TaskContext.__init__
NewContext ==
    [current |-> Unknown, status |-> EmptyMap, start_times |-> {},
     end_times |-> {}, results |-> EmptyMap, raw_results |-> EmptyMap,
     errors |-> EmptyMap, traceback |-> EmptyMap, violations |-> EmptyMap,
     task_meta |-> {}]

get_status(c, name) == Get(c.status, name, "queued")
get_raw_result(c, name) == Get(c.raw_results, name, EmptyDict)
get_errors(c, name) == Get(c.errors, name, <<>>)
get_traceback(c, name) == Get(c.traceback, name, "None")
get_violation(c, name) == Get(c.violations, name, FALSE)
has_result(c, name) == name \in DOMAIN c.results

add_error(c, e, name) ==
    [c EXCEPT !.errors = Put(@, name, Append(get_errors(c, name), e))]

set_traceback(c, tb, name) == [c EXCEPT !.traceback = Put(@, name, tb)]

set_violation(c, v, name) == [c EXCEPT !.violations = Put(@, name, v)]

\* set_result(result, violation=flag): flag is "true", "false" or not a bool
set_result(c, result, name, flag) ==
    LET stored == [c EXCEPT !.raw_results = Put(@, name, result)]
    IN IF flag \in {"true", "false"}
       THEN set_violation(stored, flag = "true", name)
       ELSE stored

\* format_result raises AttributeError when the stored entry is not a dict:
\* self._results[task_name].get(...)
FormatRaises(c, name) == has_result(c, name) /\ c.results[name].kind # "dict"

\* format_result, for a name it does not raise on. The record is kept as a
\* copy: the code shares the errors list with the context, but nothing adds
\* an error for a name whose record is stored, other than the except branch of
\* start(), which replaces the entry in the same step.
format_result(c, name) ==
    [kind |-> "dict",
     success |-> IF has_result(c, name) THEN c.results[name].success ELSE TRUE,
     output |-> get_raw_result(c, name),
     errors |-> get_errors(c, name),
     traceback |-> get_traceback(c, name),
     is_violation |-> get_violation(c, name),
     status |-> get_status(c, name),
     type |-> IF has_result(c, name) THEN c.results[name].type ELSE "collector",
     has_start |-> name \in c.start_times,
     has_end |-> name \in c.end_times]

\* result_data = ctx.format_result(name); result_data["success"] = s;
\* result_data["type"] = t; ctx._results[name] = result_data
StoreRecord(c, name, s, t) ==
    LET result_data == [format_result(c, name) EXCEPT !.success = s, !.type = t]
    IN [c EXCEPT !.results = Put(@, name, result_data)]

\* --------------------------------------------- decorators.py: the wrapper
\* the metadata of the task the for loop is at; the wrapper's closure
Method == task_methods[idx]

\* faulty variant: the status is not set on entry
WrapperBegin_NoStatus ==
    /\ wpc = "begin"
    /\ ctx' = [ctx EXCEPT !.current = Method.name,
                          !.start_times = @ \cup {Method.name},
                          !.task_meta = @ \cup {Method.name}]
    /\ wpc' = "gate"
    /\ UNCHANGED <<cfgVars, histVars, opc, task_methods, idx, wsuccess, wret,
                   wvalue>>

\* lines 25-30
WrapperBegin ==
    /\ wpc = "begin"
    /\ ctx' = [ctx EXCEPT !.current = Method.name,
                          !.status = Put(@, Method.name, "in_progress"),
                          !.start_times = @ \cup {Method.name},
                          !.task_meta = @ \cup {Method.name}]
    /\ wpc' = "gate"
    /\ UNCHANGED <<cfgVars, histVars, opc, task_methods, idx, wsuccess, wret,
                   wvalue>>

\* faulty variant: the has_result check left out, so a missing dependency reads as
\* the default record of format_result
RECURSIVE GateVerdict_NoPresenceCheck(_, _)
GateVerdict_NoPresenceCheck(c, deps) ==
    IF deps = <<>> THEN [verdict |-> "pass", dep |-> Unknown]
    ELSE LET dep_task == Head(deps)
         IN IF FormatRaises(c, dep_task)
            THEN [verdict |-> "raise", dep |-> dep_task]
            ELSE IF ~format_result(c, dep_task).success
            THEN [verdict |-> "failed", dep |-> dep_task]
            ELSE GateVerdict_NoPresenceCheck(c, Tail(deps))

\* faulty variant: the dependencies examined from the last to the first
RECURSIVE GateVerdict_LastFirst(_, _)
GateVerdict_LastFirst(c, deps) ==
    IF deps = <<>> THEN [verdict |-> "pass", dep |-> Unknown]
    ELSE LET dep_task == deps[Len(deps)]
         IN IF ~has_result(c, dep_task)
            THEN [verdict |-> "missing", dep |-> dep_task]
            ELSE IF FormatRaises(c, dep_task)
            THEN [verdict |-> "raise", dep |-> dep_task]
            ELSE IF ~format_result(c, dep_task).success
            THEN [verdict |-> "failed", dep |-> dep_task]
            ELSE GateVerdict_LastFirst(c, SubSeq(deps, 1, Len(deps) - 1))

\* the for loop over depends_on: the first dependency that stops it, if any
RECURSIVE GateVerdict(_, _)
GateVerdict(c, deps) ==
    IF deps = <<>> THEN [verdict |-> "pass", dep |-> Unknown]
    ELSE LET dep_task == Head(deps)
         IN IF ~has_result(c, dep_task)
            THEN [verdict |-> "missing", dep |-> dep_task]
            ELSE IF FormatRaises(c, dep_task)
            THEN [verdict |-> "raise", dep |-> dep_task]
            ELSE IF ~format_result(c, dep_task).success
            THEN [verdict |-> "failed", dep |-> dep_task]
            ELSE GateVerdict(c, Tail(deps))

\* lines 39-47 and 54-62: the skip branch, with its error message
GateSkip(c, name, type, e) ==
    LET marked == [add_error(c, e, c.current) EXCEPT
                       !.status = Put(@, name, "skipped"),
                       !.end_times = @ \cup {name}]
    IN StoreRecord(marked, name, FALSE, type)

\* faulty variant: the wrapper goes on to the body after marking the skip
Gate_ContinuesAfterSkip ==
    /\ wpc = "gate"
    /\ LET v == GateVerdict(ctx, Method.depends_on)
           msg == IF v.verdict = "missing" THEN "dependency_was_not_executed"
                  ELSE "dependency_failed_skipping_task"
       IN CASE v.verdict = "pass" ->
                 /\ wpc' = "body"
                 /\ UNCHANGED <<ctx, wret>>
            [] v.verdict = "raise" ->
                 /\ wpc' = "raised"
                 /\ UNCHANGED <<ctx, wret>>
            [] OTHER ->
                 /\ wpc' = "body"
                 /\ ctx' = GateSkip(ctx, Method.name, Method.type, Err(msg, v.dep))
                 /\ wret' = ctx'.results[Method.name]
    /\ UNCHANGED <<cfgVars, histVars, opc, task_methods, idx, wsuccess, wvalue>>

\* lines 33-62
Gate ==
    /\ wpc = "gate"
    /\ LET v == GateVerdict(ctx, Method.depends_on)
           msg == IF v.verdict = "missing" THEN "dependency_was_not_executed"
                  ELSE "dependency_failed_skipping_task"
           marked == add_error(ctx, Err(msg, v.dep), ctx.current)
       IN CASE v.verdict = "pass" ->
                 /\ wpc' = "body"
                 /\ UNCHANGED <<ctx, wret>>
            [] v.verdict = "raise" ->
                 \* ctx.get_result(dep_task) raised: nothing catches it here
                 /\ wpc' = "raised"
                 /\ UNCHANGED <<ctx, wret>>
            [] OTHER ->
                 IF FormatRaises(marked, Method.name)
                 THEN /\ wpc' = "raised"
                      /\ ctx' = [marked EXCEPT
                                    !.status = Put(@, Method.name, "skipped"),
                                    !.end_times = @ \cup {Method.name}]
                      /\ UNCHANGED wret
                 ELSE /\ wpc' = "returned"
                      /\ ctx' = GateSkip(ctx, Method.name, Method.type,
                                         Err(msg, v.dep))
                      /\ wret' = ctx'.results[Method.name]
    /\ UNCHANGED <<cfgVars, histVars, opc, task_methods, idx, wsuccess, wvalue>>

\* faulty variant: the type of data is not checked
Validate_NoDataTypeCheck(rv) ==
    IF ~rv.isDict THEN "task_must_return_a_dict"
    ELSE IF rv.data = "absent" THEN "task_return_must_include_data_key"
    ELSE IF rv.violation \notin {"absent", "true", "false"}
         THEN "violation_must_be_a_bool"
    ELSE IF rv.message \notin {"absent", "none", "str"} THEN "message_must_be_a_str"
    ELSE "ok"

\* lines 68-96: the first check the returned value fails, or "ok"
Validate(rv) ==
    IF ~rv.isDict THEN "task_must_return_a_dict"
    ELSE IF rv.data = "absent" THEN "task_return_must_include_data_key"
    ELSE IF rv.data \notin {"dict", "list"} THEN "data_must_be_a_dict_or_list"
    ELSE IF rv.violation \notin {"absent", "true", "false"}
         THEN "violation_must_be_a_bool"
    ELSE IF rv.message \notin {"absent", "none", "str"} THEN "message_must_be_a_str"
    ELSE "ok"

\* lines 108-111: pop the violation flag and store the rest
StoreReturn(c, rv) ==
    set_result(c, [rv EXCEPT !.violation = "absent"], c.current,
               IF rv.violation = "absent" THEN "false" ELSE rv.violation)

\* faulty variant: the trace kept only when Config.DEBUG is set
RecordFailure_TraceOnlyInDebug(c, msg) ==
    IF debug
    THEN set_traceback(add_error(c, Err(msg, Unknown), c.current), "tb", c.current)
    ELSE add_error(c, Err(msg, Unknown), c.current)

\* lines 123-124: the error and the trace are stored whatever Config.DEBUG is
RecordFailure(c, msg) ==
    set_traceback(add_error(c, Err(msg, Unknown), c.current), "tb", c.current)

\* ctx.logger: one more line logged by the wrapper of name
Log(l, name, line) == Put(l, name, Append(Get(l, name, <<>>), line))

\* lines 119-122: Config.DEBUG chooses what the except branch logs
LogFailure(l, name) == Log(l, name, IF debug THEN "trace" ELSE "message")

\* lines 99-105: the warning about keys besides data, violation and message
LogUnexpected(l, name, rv) ==
    IF rv.extra THEN Log(l, name, "unexpected_keys") ELSE l

\* task_return_value: not bound before the body has returned, and never
\* bound when the body raised
Unbound == [state |-> "unbound", value |-> EmptyDict]
BodyRaised == [state |-> "raised", value |-> EmptyDict]
BodyReturned(rv) == [state |-> "returned", value |-> rv]

\* lines 64-124: the body returns one of the values of Returns, or raises
Body(Returns) ==
    /\ wpc = "body"
    /\ invoked' = invoked \cup {Method.name}
    /\ \/ \E rv \in Returns :
             /\ wvalue' = BodyReturned(rv)
             /\ IF Validate(rv) = "ok"
                THEN /\ ctx' = StoreReturn(ctx, rv)
                     /\ logged' = LogUnexpected(logged, Method.name, rv)
                     /\ wsuccess' = TRUE
                ELSE /\ ctx' = RecordFailure(ctx, Validate(rv))
                     /\ logged' = LogFailure(logged, Method.name)
                     /\ wsuccess' = FALSE
       \/ /\ wvalue' = BodyRaised
          /\ ctx' = RecordFailure(ctx, "body_exception")
          /\ logged' = LogFailure(logged, Method.name)
          /\ wsuccess' = FALSE
    /\ wpc' = "finish"
    /\ UNCHANGED <<cfgVars, started, circuited, attempts, posts, opc,
                   task_methods, idx, wret, observed>>

\* faulty variant: the type test left out
ShouldReport_AnyType(c, name, type, success) ==
    success /\ get_violation(c, name)

\* line 130
ShouldReport(c, name, type, success) ==
    type = "insight" /\ success /\ get_violation(c, name)

\* lines 126-130
MarkDone ==
    /\ wpc = "finish"
    /\ ctx' = [ctx EXCEPT !.status = Put(@, Method.name, "done"),
                          !.end_times = @ \cup {Method.name}]
    /\ wpc' = IF ShouldReport(ctx', Method.name, Method.type, wsuccess)
              THEN "report" ELSE "store"
    /\ UNCHANGED <<cfgVars, histVars, opc, task_methods, idx, wsuccess, wret,
                   wvalue>>

\* faulty variant: a failed report fails the task
AutoReport_FailsTask ==
    /\ wpc = "report"
    /\ attempts' = Put(attempts, Method.name, Get(attempts, Method.name, 0) + 1)
    /\ \/ /\ posts' = Put(posts, Method.name,
                          Append(Get(posts, Method.name, <<>>), "created"))
          /\ UNCHANGED <<ctx, wsuccess>>
       \/ /\ posts' = Put(posts, Method.name,
                          Append(Get(posts, Method.name, <<>>), "failed"))
          /\ ctx' = add_error(ctx, Err("failed_to_create_violation", Unknown),
                              ctx.current)
          /\ wsuccess' = FALSE
    /\ wpc' = "store"
    /\ UNCHANGED <<cfgVars, started, invoked, circuited, opc, task_methods,
                   idx, wret, observed, logged, wvalue>>

\* lines 131-137 with create_violation (base_runner.py 164-252): the call
\* raises before the POST when get_result raises, and otherwise the POST
\* succeeds or fails
AutoReport ==
    /\ wpc = "report"
    /\ attempts' = Put(attempts, Method.name, Get(attempts, Method.name, 0) + 1)
    /\ IF FormatRaises(ctx, Method.name)
       THEN /\ ctx' = add_error(ctx, Err("failed_to_create_violation", Unknown),
                                ctx.current)
            /\ UNCHANGED posts
       ELSE \/ /\ posts' = Put(posts, Method.name,
                               Append(Get(posts, Method.name, <<>>), "created"))
               /\ UNCHANGED ctx
            \/ /\ posts' = Put(posts, Method.name,
                               Append(Get(posts, Method.name, <<>>), "failed"))
               /\ ctx' = add_error(ctx, Err("failed_to_create_violation", Unknown),
                                   ctx.current)
    /\ wpc' = "store"
    /\ UNCHANGED <<cfgVars, started, invoked, circuited, opc, task_methods,
                   idx, wsuccess, wret, observed, logged, wvalue>>

\* lines 139-144
StoreResult ==
    /\ wpc = "store"
    /\ IF FormatRaises(ctx, Method.name)
       THEN /\ wpc' = "raised"
            /\ UNCHANGED <<ctx, wret>>
       ELSE /\ wpc' = "returned"
            /\ ctx' = StoreRecord(ctx, Method.name, wsuccess, Method.type)
            /\ wret' = ctx'.results[Method.name]
    /\ UNCHANGED <<cfgVars, histVars, opc, task_methods, idx, wsuccess, wvalue>>

\* ------------------------------------- base_runner.py: StageTwo.start
\* lines 333-346
Start ==
    /\ opc = "init"
    /\ task_methods' = TaskMethods(attrs)
    /\ ctx' = NewContext
    /\ idx' = 1
    /\ opc' = "loop"
    /\ UNCHANGED <<cfgVars, histVars, wpc, wsuccess, wret, wvalue>>

\* faulty variant: the requested subset ignored
Selected_Any(name) == TRUE

\* faulty variant: the test of the subset inverted
Selected_Inverted(name) == requested = {} \/ name \notin requested

\* line 349: if tasks and task_name not in tasks: continue
Selected(name) == requested = {} \/ name \in requested

\* lines 348-352: a task outside the requested subset
SkipUnrequested ==
    /\ opc = "loop"
    /\ idx <= Len(task_methods)
    /\ ~Selected(Method.name)
    /\ idx' = idx + 1
    /\ UNCHANGED <<cfgVars, histVars, opc, task_methods, wpc, wsuccess, wret,
                   ctx, wvalue>>

\* lines 354-361: executor.submit(method, ctx), then future.result(timeout)
Submit ==
    /\ opc = "loop"
    /\ idx <= Len(task_methods)
    /\ Selected(Method.name)
    /\ started' = Append(started, Method.name)
    /\ wpc' = "begin"
    /\ wsuccess' = FALSE
    /\ wvalue' = Unbound
    /\ opc' = "wait"
    /\ UNCHANGED <<cfgVars, invoked, circuited, attempts, posts, task_methods,
                   idx, wret, ctx, observed, logged>>

WrapperFinished == wpc \in {"returned", "raised"}

\* faulty variant: the loop goes on after the deadline, the worker abandoned
\* and nothing recorded
Timeout_Abandons ==
    /\ opc = "wait"
    /\ ~WrapperFinished
    /\ opc' = "loop"
    /\ idx' = idx + 1
    /\ wpc' = "idle"
    /\ UNCHANGED <<cfgVars, histVars, task_methods, wsuccess, wret, ctx, wvalue>>

\* line 361: the deadline elapses before the wrapper has returned. The
\* TimeoutError leaves the with block through the executor's __exit__, which
\* is shutdown(wait=True): it joins the worker thread.
Timeout ==
    /\ opc = "wait"
    /\ ~WrapperFinished
    /\ opc' = "timedout"
    /\ UNCHANGED <<cfgVars, histVars, task_methods, idx, wpc, wsuccess, wret,
                   ctx, wvalue>>

\* lines 361-362 and 376: the wrapper returned within the deadline
Collect ==
    /\ opc = "wait"
    /\ wpc = "returned"
    /\ ctx' = [ctx EXCEPT !.results = Put(@, Method.name, wret)]
    /\ idx' = idx + 1
    /\ opc' = "loop"
    /\ wpc' = "idle"
    /\ UNCHANGED <<cfgVars, histVars, task_methods, wsuccess, wret, wvalue>>

\* lines 369-373
CircuitErrors(c, task_name) ==
    add_error(add_error(c, Err("circuit_catch", task_name), c.current),
              Err("exception_text", Unknown), c.current)

\* faulty variant: the except branch entered without joining the worker
CircuitCatch_NoJoin ==
    /\ \/ opc = "wait" /\ wpc = "raised"
       \/ opc = "timedout"
    /\ ctx' = [CircuitErrors(ctx, Method.name) EXCEPT
                  !.results = Put(@, Method.name, BoolFalse)]
    /\ opc' = "loop"
    /\ idx' = idx + 1
    /\ wpc' = IF WrapperFinished THEN "idle" ELSE wpc
    /\ circuited' = circuited \cup {Method.name}
    /\ UNCHANGED <<cfgVars, started, invoked, attempts, posts, task_methods,
                   wsuccess, wret, observed, logged, wvalue>>

\* lines 364-376: the except branch, entered once the worker thread is
\* joined. `task_output = result_data["success"] = False` binds task_output
\* to False. format_result() raising here leaves start() with the exception.
CircuitCatch ==
    /\ \/ opc = "wait" /\ wpc = "raised"
       \/ opc = "timedout" /\ WrapperFinished
    /\ LET marked == CircuitErrors(ctx, Method.name)
       IN IF FormatRaises(marked, marked.current)
          THEN /\ ctx' = marked
               /\ opc' = "crashed"
               /\ UNCHANGED idx
          ELSE /\ ctx' = [marked EXCEPT !.results = Put(@, Method.name, BoolFalse)]
               /\ opc' = "loop"
               /\ idx' = idx + 1
    /\ wpc' = "idle"
    /\ circuited' = circuited \cup {Method.name}
    /\ UNCHANGED <<cfgVars, started, invoked, attempts, posts, task_methods,
                   wsuccess, wret, observed, logged, wvalue>>

\* line 377
Return ==
    /\ opc = "loop"
    /\ idx > Len(task_methods)
    /\ opc' = "returned"
    /\ UNCHANGED <<cfgVars, histVars, task_methods, idx, wpc, wsuccess, wret,
                   ctx, wvalue>>

\* ------------------------------------- insight_registry.py: the resolver
\* the loaded mapping is a list of [framework, controls] in the order of the
\* file, controls a list of [control_id, insights], insights a list of names
ControlRef(framework, control_id) ==
    [framework |-> framework, control_id |-> control_id]

\* faulty variant: the entry replaces the list instead of extending it
AddControl_Replaces(result, insight, entry) == Put(result, insight, <<entry>>)

\* line 20: result.setdefault(insight, []).append(entry)
AddControl(result, insight, entry) ==
    Put(result, insight, Append(Get(result, insight, <<>>), entry))

\* line 19: for insight in insights
RECURSIVE InvertInsights(_, _, _, _)
InvertInsights(result, framework, control_id, insights) ==
    IF insights = <<>> THEN result
    ELSE InvertInsights(
             AddControl(result, Head(insights), ControlRef(framework, control_id)),
             framework, control_id, Tail(insights))

\* line 18: for control_id, insights in controls.items()
RECURSIVE InvertControls(_, _, _)
InvertControls(result, framework, controls) ==
    IF controls = <<>> THEN result
    ELSE InvertControls(
             InvertInsights(result, framework, Head(controls).control_id,
                            Head(controls).insights),
             framework, Tail(controls))

\* lines 15-24; result is {} on entry
RECURSIVE InvertFrom(_, _)
InvertFrom(result, framework_map) ==
    IF framework_map = <<>> THEN result
    ELSE InvertFrom(
             InvertControls(result, Head(framework_map).framework,
                            Head(framework_map).controls),
             Tail(framework_map))

_invert(framework_map) == InvertFrom(EmptyMap, framework_map)

\* __init__: the mapping loaded, and its inverse
InsightControlRegistry(loaded) ==
    [framework_map |-> loaded, insight_to_controls |-> _invert(loaded)]

\* lines 26-27: self._insight_to_controls.get(task_name, [])
get_controls(r, task_name) == Get(r.insight_to_controls, task_name, <<>>)

\* a call of get_controls(task_name); observed keeps the call, what it
\* returned and the resolver it read
Lookup ==
    /\ \E task_name \in DepNames :
          observed' = <<[name |-> task_name,
                         record |-> get_controls(registry, task_name),
                         context |-> registry]>>
    /\ UNCHANGED <<cfgVars, started, invoked, circuited, attempts, posts,
                   logged, opc, task_methods, idx, wpc, wsuccess, wret, wvalue,
                   ctx>>

\* the mapping of a run that maps no insight to a control
NoControls == <<>>

\* ------------------------------------------------------ configurations
TaskTypes == {"collector", "insight"}
OrderArgs == {<<>>} \cup {<<k>> : k \in 1..MaxOrder}

\* the values a task body returns in the runs of Spec: a valid value without
\* a violation key, a valid value flagging a violation, and one without data
CoreReturns ==
    {Value(TRUE, "dict", "absent", "absent", FALSE),
     Value(TRUE, "list", "true", "str", FALSE),
     Value(TRUE, "absent", "true", "absent", FALSE)}

\* one decorated function per function name, its task name equal to the
\* function name, depending on other names
Decorated(fn) ==
    {TaskMetadata(fn, fn, e, t, o, d) :
        e \in BOOLEAN, t \in TaskTypes, o \in OrderArgs,
        d \in DistinctSeqs(DepNames \ {fn}, MaxDeps)}

\* Config.DEBUG when the environment does not set DEBUG
DefaultDebug == TRUE

InitRun ==
    /\ opc = "init"
    /\ task_methods = <<>>
    /\ idx = 1
    /\ wpc = "idle"
    /\ wsuccess = FALSE
    /\ wret = BoolFalse
    /\ ctx = NewContext
    /\ started = <<>>
    /\ invoked = {}
    /\ circuited = {}
    /\ attempts = EmptyMap
    /\ posts = EmptyMap
    /\ wvalue = Unbound
    /\ logged = EmptyMap
    /\ observed = <<>>

\* after BaseRunner.__init__: register_tasks has attached the functions
Init ==
    /\ \E d1 \in Decorated(1), d2 \in Decorated(2) :
          reg \in {<<d1, d2>>, <<d2, d1>>}
    /\ attrs = register_tasks(EmptyMap, reg)
    /\ requested \in SUBSET Funcs
    /\ debug = DefaultDebug
    /\ registry = InsightControlRegistry(NoControls)
    /\ InitRun

Next ==
    \/ Start
    \/ SkipUnrequested
    \/ Submit
    \/ WrapperBegin
    \/ Gate
    \/ Body(CoreReturns)
    \/ MarkDone
    \/ AutoReport
    \/ StoreResult
    \/ Timeout
    \/ Collect
    \/ CircuitCatch
    \/ Return

Spec == Init /\ [][Next]_vars

\* ------------------------------------- runs that vary the returned value
\* every combination of the facts the wrapper inspects
AllReturns ==
    {Value(FALSE, "absent", "absent", "absent", FALSE)} \cup
    {Value(TRUE, d, v, m, x) :
        d \in {"absent", "dict", "list", "other"},
        v \in {"absent", "true", "false", "other"},
        m \in {"absent", "none", "str", "other"},
        x \in BOOLEAN}

\* enabled tasks of either type, without dependencies, at their default order
Plain(fn) == {TaskMetadata(fn, fn, TRUE, t, <<>>, <<>>) : t \in TaskTypes}

InitValidate ==
    /\ \E d1 \in Plain(1), d2 \in Plain(2) : reg = <<d1, d2>>
    /\ attrs = register_tasks(EmptyMap, reg)
    /\ requested \in {{}, {1}}
    /\ debug \in BOOLEAN
    /\ registry = InsightControlRegistry(NoControls)
    /\ InitRun

NextValidate ==
    \/ Start
    \/ SkipUnrequested
    \/ Submit
    \/ WrapperBegin
    \/ Gate
    \/ Body(AllReturns)
    \/ MarkDone
    \/ AutoReport
    \/ StoreResult
    \/ Timeout
    \/ Collect
    \/ CircuitCatch
    \/ Return

SpecValidate == InitValidate /\ [][NextValidate]_vars

\* ------------------------- runs whose descriptors share a name or a slot
\* an enabled task in the slot fn, carrying either task name
Named(fn) ==
    {TaskMetadata(fn, n, TRUE, t, <<>>, <<>>) : n \in Funcs, t \in TaskTypes}

\* two decorated functions with the same __name__ or the same task name
InitDup ==
    /\ \E f1 \in Funcs, f2 \in Funcs :
          \E d1 \in Named(f1), d2 \in Named(f2) :
             /\ f1 = f2 \/ d1.name = d2.name
             /\ reg = <<d1, d2>>
    /\ attrs = register_tasks(EmptyMap, reg)
    /\ requested \in {{}, {1}}
    /\ debug = DefaultDebug
    /\ registry = InsightControlRegistry(NoControls)
    /\ InitRun

SpecDup == InitDup /\ [][Next]_vars

\* --------------------------------- runs with calls of format_result
\* the context after format_result(name): the method assigns nothing
FormatEffect(c, name) == c

\* what a call of format_result(name) gives its caller
Observation(c, name) ==
    IF FormatRaises(c, name) THEN [kind |-> "raised"] ELSE format_result(c, name)

\* a call of ctx.format_result(name) from anywhere, once the context exists;
\* observed keeps the latest call: its name, its outcome, the context it read
Observe ==
    /\ opc # "init"
    /\ \E name \in DepNames :
          /\ observed' = <<[name |-> name, record |-> Observation(ctx, name),
                            context |-> ctx]>>
          /\ ctx' = FormatEffect(ctx, name)
    /\ UNCHANGED <<cfgVars, started, invoked, circuited, attempts, posts,
                   logged, opc, task_methods, idx, wpc, wsuccess, wret, wvalue>>

InitObserve ==
    /\ \E d1 \in Plain(1), d2 \in Plain(2) : reg = <<d1, d2>>
    /\ attrs = register_tasks(EmptyMap, reg)
    /\ requested \in {{}, {1}}
    /\ debug = DefaultDebug
    /\ registry = InsightControlRegistry(NoControls)
    /\ InitRun

NextObserve ==
    \/ Start
    \/ SkipUnrequested
    \/ Submit
    \/ WrapperBegin
    \/ Gate
    \/ Body(CoreReturns)
    \/ MarkDone
    \/ AutoReport
    \/ StoreResult
    \/ Timeout
    \/ Collect
    \/ CircuitCatch
    \/ Return
    \/ Observe

SpecObserve == InitObserve /\ [][NextObserve]_vars

\* ------------------------------------- runs of the control resolver
Frameworks == {"soc2", "iso27001"}
ControlIds == {"cc1", "cc2"}
\* lists of insight names, with and without a repeated name
InsightLists == {<<>>, <<1>>, <<2>>, <<1, 2>>, <<2, 1>>, <<1, 1>>}

\* the controls of a framework: distinct control ids, as a JSON object loads
ControlMaps ==
    UNION {{[i \in DOMAIN ks |-> [control_id |-> ks[i], insights |-> ls[i]]] :
               ls \in [DOMAIN ks -> InsightLists]} :
           ks \in DistinctSeqs(ControlIds, Cardinality(ControlIds))}

\* the mappings the file may hold: distinct frameworks
FrameworkMaps ==
    UNION {{[i \in DOMAIN ks |-> [framework |-> ks[i], controls |-> cs[i]]] :
               cs \in [DOMAIN ks -> ControlMaps]} :
           ks \in DistinctSeqs(Frameworks, Cardinality(Frameworks))}

\* a resolver built from any mapping; no task registered
InitRegistry ==
    /\ registry \in {InsightControlRegistry(m) : m \in FrameworkMaps}
    /\ reg = <<>>
    /\ attrs = register_tasks(EmptyMap, reg)
    /\ requested = {}
    /\ debug = DefaultDebug
    /\ InitRun

NextRegistry == Lookup

SpecRegistry == InitRegistry /\ [][NextRegistry]_vars

\* ================================================================ claims
\* the names start() is to run: enabled and, when a subset is requested, in it
Expected == {attrs[f].name : f \in {g \in DOMAIN attrs :
                 attrs[g].enabled /\ (requested = {} \/ attrs[g].name \in requested)}}

Count(seq, e) == Cardinality({i \in DOMAIN seq : seq[i] = e})

\* C1: when start() returns, the result map has an entry for exactly the
\* enabled, selected tasks, each of them was attempted, and start() is never
\* left by an exception, whatever the bodies did.
C1_ResultForEverySelectedTask ==
    /\ opc # "crashed"
    /\ opc = "returned" =>
          /\ DOMAIN ctx.results = Expected
          /\ Range(started) = Expected
          /\ Len(started) = Cardinality(Expected)

\* a run where the first task failed in its body and the second was still run
C1_Witness ==
    /\ opc = "returned"
    /\ Len(started) = 2
    /\ ctx.results[started[1]].kind = "dict"
    /\ ~ctx.results[started[1]].success
    /\ ctx.results[started[1]].status = "done"
    /\ started[2] \in DOMAIN ctx.results

\* C2: once the deadline has elapsed with the wrapper still running, the
\* orchestrator can go on to the next task without the wrapper finishing.
C2_ProceedsWithoutWaiting ==
    opc = "timedout" => ENABLED CircuitCatch

\* C3: the entry the circuit path stores is a ResultRecord with success
\* false whose errors contain the circuit error.
C3_CircuitEntryIsRecord ==
    \A n \in circuited :
        /\ has_result(ctx, n)
        /\ ctx.results[n].kind = "dict"
        /\ ~ctx.results[n].success
        /\ Err("circuit_catch", n) \in Range(ctx.results[n].errors)

\* C4: the wrapper never lets an exception escape.
C4_WrapperNeverRaises == wpc # "raised"

\* the entry of dependency d records a success
GoodEntry(c, d) ==
    has_result(c, d) /\ c.results[d].kind = "dict" /\ c.results[d].success

\* the wrapper returned record r, stored as the entry of name, skipped with e
SkippedWith(w, r, c, name, e) ==
    /\ w = "returned"
    /\ r.kind = "dict"
    /\ r.status = "skipped"
    /\ ~r.success
    /\ e \in Range(r.errors)
    /\ has_result(c, name)
    /\ c.results[name] = r

GateStep == wpc = "gate" /\ wpc' # "gate"

\* C5 as stated: a task with a dependency that has no entry when its gate
\* runs ends skipped, unsuccessful, with the "was not executed" error naming
\* that dependency.
C5_MissingDependencySkips ==
    [][GateStep =>
         \A i \in DOMAIN Method.depends_on :
            ~has_result(ctx, Method.depends_on[i]) =>
               SkippedWith(wpc', wret', ctx', Method.name,
                   Err("dependency_was_not_executed", Method.depends_on[i]))]_vars

\* C5 amended: the same, for the dependency without an entry that the gate
\* reaches, every name before it in depends_on having a successful entry.
C5_FirstMissingDependencySkips ==
    [][GateStep =>
         \A i \in DOMAIN Method.depends_on :
            (/\ ~has_result(ctx, Method.depends_on[i])
             /\ \A j \in 1..(i - 1) : GoodEntry(ctx, Method.depends_on[j])) =>
               SkippedWith(wpc', wret', ctx', Method.name,
                   Err("dependency_was_not_executed", Method.depends_on[i]))]_vars

\* a task skipped for a missing second dependency, behind a successful first
C5_Witness ==
    /\ wpc = "returned"
    /\ Len(Method.depends_on) = 2
    /\ GoodEntry(ctx, Method.depends_on[1])
    /\ wret.kind = "dict"
    /\ wret.status = "skipped"
    /\ Err("dependency_was_not_executed", Method.depends_on[2]) \in Range(wret.errors)

\* C6: a task whose gate reaches a dependency that ran and failed (its entry
\* is present and not successful) ends skipped, unsuccessful, with the
\* "failed - skipping task" error naming that dependency.
C6_FailedDependencySkips ==
    [][GateStep =>
         \A i \in DOMAIN Method.depends_on :
            (/\ has_result(ctx, Method.depends_on[i])
             /\ ~GoodEntry(ctx, Method.depends_on[i])
             /\ \A j \in 1..(i - 1) : GoodEntry(ctx, Method.depends_on[j])) =>
               SkippedWith(wpc', wret', ctx', Method.name,
                   Err("dependency_failed_skipping_task", Method.depends_on[i]))]_vars

\* the task function registered under task name n
TaskOf(n) == attrs[CHOOSE f \in DOMAIN attrs : attrs[f].name = n]

\* task n sorts before method m: lower order, or equal order and a function
\* name that dir() lists first
Precedes(n, m) ==
    \/ TaskOf(n).order < m.order
    \/ TaskOf(n).order = m.order /\ TaskOf(n).fn < m.fn

\* C7 as stated: when a gate runs, every dependency that names an enabled,
\* selected task has an entry, for every assignment of order values.
C7_DependenciesRecordedBeforeGate ==
    wpc = "gate" =>
        \A d \in Range(Method.depends_on) : d \in Expected => has_result(ctx, d)

\* C7 amended: the same for the dependencies that sort before the dependent.
C7_EarlierDependenciesRecordedBeforeGate ==
    wpc = "gate" =>
        \A d \in Range(Method.depends_on) :
            (d \in Expected /\ Precedes(d, Method)) => has_result(ctx, d)

\* a gate about to run whose dependency sorts first by order only
C7_Witness ==
    /\ wpc = "gate"
    /\ \E d \in Range(Method.depends_on) :
          /\ d \in Expected
          /\ TaskOf(d).order < Method.order
          /\ TaskOf(d).fn > Method.fn
          /\ has_result(ctx, d)

\* position at which register_tasks met the function of task n
RegPos(n) == CHOOSE i \in DOMAIN reg : reg[i].name = n

\* C8 as stated: tasks start in ascending order, ties in registration order.
C8_AscendingOrderTiesByRegistration ==
    \A i, j \in DOMAIN started :
        i < j =>
            \/ TaskOf(started[i]).order < TaskOf(started[j]).order
            \/ /\ TaskOf(started[i]).order = TaskOf(started[j]).order
               /\ RegPos(started[i]) < RegPos(started[j])

\* C8 amended: tasks start in ascending order, ties in ascending order of the
\* function names.
C8_AscendingOrderTiesByFunctionName ==
    \A i, j \in DOMAIN started :
        i < j =>
            \/ TaskOf(started[i]).order < TaskOf(started[j]).order
            \/ /\ TaskOf(started[i]).order = TaskOf(started[j]).order
               /\ TaskOf(started[i]).fn < TaskOf(started[j]).fn

\* two tasks of equal order started against their registration order
C8_Witness ==
    /\ Len(started) = 2
    /\ TaskOf(started[1]).order = TaskOf(started[2]).order
    /\ RegPos(started[1]) > RegPos(started[2])

\* a lower order started first although its function name sorts last
C8_WitnessOrder ==
    /\ Len(started) = 2
    /\ TaskOf(started[1]).order < TaskOf(started[2]).order
    /\ TaskOf(started[1]).fn > TaskOf(started[2]).fn

\* C9: the wrapper calls create_violation once for an insight that succeeded
\* with its violation flag set, and not at all for any other execution.
C9_ReportAttempts ==
    /\ \A n \in DOMAIN ctx.status :
          /\ Get(attempts, n, 0) <= 1
          /\ TaskOf(n).type = "collector" => Get(attempts, n, 0) = 0
          /\ ctx.status[n] = "skipped" => Get(attempts, n, 0) = 0
    /\ wpc \in {"begin", "gate", "body", "finish", "report"} =>
          Get(attempts, Method.name, 0) = 0
    /\ wpc \in {"store", "returned"} =>
          Get(attempts, Method.name, 0) =
             IF /\ Method.type = "insight"
                /\ wsuccess
                /\ get_violation(ctx, Method.name)
             THEN 1 ELSE 0

\* the wrapper of an insight has made its one attempt
C9_Witness ==
    /\ wpc = "store"
    /\ Method.type = "insight"
    /\ Get(attempts, Method.name, 0) = 1

\* C10: after a failed violation report the wrapper has not raised, the
\* task's record keeps success and is_violation true, and its errors hold
\* exactly one "Failed to create violation" entry.
C10_ReportFailureKeepsSuccess ==
    LET e == Err("failed_to_create_violation", Unknown)
        failed == "failed" \in Range(Get(posts, Method.name, <<>>))
    IN (opc \in {"wait", "timedout"} /\ failed) =>
          /\ wpc \in {"store", "returned"}
          /\ wsuccess
          /\ get_violation(ctx, Method.name)
          /\ Count(get_errors(ctx, Method.name), e) = 1
          /\ wpc = "returned" =>
                /\ wret.kind = "dict"
                /\ wret.success
                /\ wret.is_violation
                /\ Count(wret.errors, e) = 1
                /\ ctx.results[Method.name] = wret

\* the wrapper returned after its report failed
C10_Witness ==
    /\ wpc = "returned"
    /\ "failed" \in Range(Get(posts, Method.name, <<>>))

\* the returned value is what the task function contract asks for: a mapping
\* whose data is a mapping or a sequence, violation absent or boolean,
\* message absent or a string
WellFormed(v) ==
    /\ v.state = "returned"
    /\ v.value.isDict
    /\ v.value.data \in {"dict", "list"}
    /\ v.value.violation \in {"absent", "true", "false"}
    /\ v.value.message \in {"absent", "str"}

\* the same, a message of None counting as an absent one
WellFormedOrNone(v) ==
    /\ v.state = "returned"
    /\ v.value.isDict
    /\ v.value.data \in {"dict", "list"}
    /\ v.value.violation \in {"absent", "true", "false"}
    /\ v.value.message \in {"absent", "none", "str"}

\* the error that describes what is wrong with the returned value
Describes(v) ==
    IF v.state = "raised" THEN "body_exception"
    ELSE IF ~v.value.isDict THEN "task_must_return_a_dict"
    ELSE IF v.value.data = "absent" THEN "task_return_must_include_data_key"
    ELSE IF v.value.data = "other" THEN "data_must_be_a_dict_or_list"
    ELSE IF v.value.violation = "other" THEN "violation_must_be_a_bool"
    ELSE "message_must_be_a_str"

\* the wrapper returned the record of a task whose body was run
BodyRecord == wpc = "returned" /\ wvalue.state # "unbound"

\* what C11 asks of the record r for the returned value v, well-formedness
\* being decided by ok
ValidationOutcome(r, v, ok) ==
    /\ r.kind = "dict"
    /\ r.success = ok
    /\ ok => /\ r.is_violation = (v.value.violation = "true")
             /\ r.output.data = v.value.data
             /\ r.output.message = v.value.message
             /\ r.output.extra = v.value.extra
    /\ ~ok => Err(Describes(v), Unknown) \in Range(r.errors)

\* C11 as stated: the wrapper's record has success = true exactly when the
\* returned value is a mapping with data a mapping or sequence, violation
\* absent or boolean and message absent or a string; then is_violation and
\* output follow the value, whatever extra keys it has; otherwise success is
\* false with a descriptive error.
C11_SuccessIffWellFormed ==
    BodyRecord => ValidationOutcome(wret, wvalue, WellFormed(wvalue))

\* what the wrapper does: the same, a message of None being accepted as well
ValidationAcceptsNone ==
    BodyRecord => ValidationOutcome(wret, wvalue, WellFormedOrNone(wvalue))

\* a value with extra keys and a None message was accepted
C11_Witness ==
    /\ BodyRecord
    /\ wvalue.value.extra
    /\ wvalue.value.message = "none"
    /\ wvalue.value.violation = "true"
    /\ wret.success

\* C18: every stored raw result has a data entry that is a mapping or a
\* sequence, and so has the output of every record built from one.
C18_RawResultHasData ==
    /\ \A n \in DOMAIN ctx.raw_results :
          ctx.raw_results[n].data \in {"dict", "list"}
    /\ \A n \in DOMAIN ctx.results :
          (ctx.results[n].kind = "dict" /\ n \in DOMAIN ctx.raw_results) =>
             ctx.results[n].output.data \in {"dict", "list"}

\* one task stored a raw result after another returned data of a wrong type
C18_Witness ==
    /\ wpc = "returned"
    /\ wvalue.state = "returned"
    /\ wvalue.value.data = "other"
    /\ DOMAIN ctx.raw_results # {}

\* C19 as stated: a failed task's record has success = false and the error
\* message, and holds a trace exactly when Config.DEBUG is set.
C19_TraceOnlyInDebug ==
    (BodyRecord /\ ~wsuccess) =>
        /\ ~wret.success
        /\ Err(Describes(wvalue), Unknown) \in Range(wret.errors)
        /\ (wret.traceback # "None") = debug

\* C19 amended: a failed task's record has success = false, the error message
\* and a trace whether or not Config.DEBUG is set; Config.DEBUG only chooses
\* whether the trace or the message is logged.
C19_TraceAlwaysStored ==
    (BodyRecord /\ ~wsuccess) =>
        /\ ~wret.success
        /\ Err(Describes(wvalue), Unknown) \in Range(wret.errors)
        /\ wret.traceback = "tb"
        /\ Get(logged, Method.name, <<>>) = <<IF debug THEN "trace" ELSE "message">>

\* a failed validation left a trace in the record with Config.DEBUG off
C19_Witness ==
    /\ BodyRecord
    /\ ~debug
    /\ wvalue.state = "returned"
    /\ ~wret.success
    /\ wret.traceback = "tb"

\* a status may stay, or move one step along queued, in_progress, done/skipped
StatusStep(a, b) ==
    \/ a = b
    \/ a = "queued" /\ b = "in_progress"
    \/ a = "in_progress" /\ b \in {"done", "skipped"}

\* C12: the status of every task changes only from queued to in_progress and
\* from in_progress to done or skipped: never backwards, never from queued
\* to done or skipped, never once it is done or skipped.
C12_StatusTransitions ==
    [][\A n \in DepNames : StatusStep(get_status(ctx, n), get_status(ctx', n))]_vars

\* a run that returned with one task done and the other skipped
C12_Witness ==
    /\ opc = "returned"
    /\ \E a \in Funcs, b \in Funcs :
          get_status(ctx, a) = "done" /\ get_status(ctx, b) = "skipped"

\* the success of the entry stored for n; the boolean False that the except
\* branch of start() stores reads as unsuccessful
StoredSuccess(c, n) ==
    IF c.results[n].kind = "dict" THEN c.results[n].success ELSE FALSE

\* C13: once the status of a task is done or skipped, the success of its
\* stored entry keeps its value for the rest of the run.
C13_SuccessFixedOnceFinished ==
    [][\A n \in Funcs :
          (get_status(ctx, n) \in {"done", "skipped"} /\ has_result(ctx, n)) =>
             /\ has_result(ctx', n)
             /\ StoredSuccess(ctx', n) = StoredSuccess(ctx, n)]_vars

C15_OneWrapperAtATime ==
    opc \in {"init", "loop", "returned", "crashed"} => wpc = "idle"

\* the second task runs after the first exceeded its deadline
C15_Witness ==
    /\ Len(started) = 2
    /\ started[1] \in circuited
    /\ wpc = "body"

\* C16: a descriptor whose task name or attachment slot is already taken is
\* rejected: no task name is started twice and every registered descriptor
\* is still the one attached to its slot.
C16_DuplicatesRejected ==
    /\ \A i \in DOMAIN started, j \in DOMAIN started :
          i # j => started[i] # started[j]
    /\ \A i \in DOMAIN reg : attrs[reg[i].fn] = reg[i]

ObserveStep == observed' # observed

\* a call of format_result changes nothing else than the caller's view
FormatResultHasNoEffect ==
    [][ObserveStep =>
         UNCHANGED <<ctx, cfgVars, started, invoked, circuited, attempts, posts,
                     logged, opc, task_methods, idx, wpc, wsuccess, wret,
                     wvalue>>]_vars

\* C17: a call of format_result, for any name at any point of a run, leaves
\* the context unchanged and returns a record with the status and the
\* success stored at the time of the call.
C17_FormatResultReturnsRecord ==
    [][ObserveStep =>
         LET o == observed'[1]
         IN /\ ctx' = ctx
            /\ o.record.kind = "dict"
            /\ o.record.status = get_status(ctx, o.name)
            /\ o.record.success =
                  (IF has_result(ctx, o.name) THEN ctx.results[o.name].success
                   ELSE TRUE)]_vars

\* the first dependency of deps without a successful record, 0 when none
FirstFailing(c, deps) ==
    LET failing == {i \in DOMAIN deps : ~GoodEntry(c, deps[i])}
    IN IF failing = {} THEN 0 ELSE CHOOSE i \in failing : \A j \in failing : i <= j

\* C20: a task the gate skips gains exactly one error, which names the first
\* dependency of depends_on that is missing or unsuccessful; a task with an
\* empty depends_on passes the gate.
C20_FirstFailingDependencyNamed ==
    [][GateStep =>
         LET deps == Method.depends_on
             first == FirstFailing(ctx, deps)
         IN /\ deps = <<>> =>
                  wpc' = "body" /\ get_status(ctx', Method.name) = "in_progress"
            /\ get_status(ctx', Method.name) = "skipped" =>
                  /\ first # 0
                  /\ \E msg \in {"dependency_was_not_executed",
                                  "dependency_failed_skipping_task"} :
                        get_errors(ctx', Method.name) =
                           Append(get_errors(ctx, Method.name), Err(msg, deps[first]))
                  /\ (~has_result(ctx, deps[first]) =>
                        Err("dependency_was_not_executed", deps[first])
                           \in Range(get_errors(ctx', Method.name)))]_vars

\* a task skipped for the first of two dependencies that both have no entry
C20_Witness ==
    /\ wpc = "returned"
    /\ get_status(ctx, Method.name) = "skipped"
    /\ Len(Method.depends_on) = 2
    /\ ~has_result(ctx, Method.depends_on[1])
    /\ ~has_result(ctx, Method.depends_on[2])
    /\ get_errors(ctx, Method.name) =
          <<Err("dependency_was_not_executed", Method.depends_on[1])>>

\* the gate of the running task found a missing or unsuccessful dependency
GateFails == GateVerdict(ctx, Method.depends_on).verdict \in {"missing", "failed"}

\* C21: when the gate fails for a task the wrapper stops there: the task is
\* skipped, its body is never invoked, no raw result and no violation flag
\* is stored for it, no violation report is attempted, and its status never
\* becomes done.
C21_GateFailureStopsWrapper ==
    [][/\ (GateStep /\ GateFails) =>
             /\ wpc' \in {"returned", "raised"}
             /\ get_status(ctx', Method.name) = "skipped"
       /\ \A n \in Funcs :
             get_status(ctx', n) = "skipped" =>
                /\ n \notin invoked'
                /\ n \notin DOMAIN ctx'.raw_results
                /\ n \notin DOMAIN ctx'.violations
                /\ Get(attempts', n, 0) = 0
                /\ Get(posts', n, <<>>) = <<>>
       /\ \A n \in Funcs :
             get_status(ctx, n) = "skipped" => get_status(ctx', n) = "skipped"]_vars

\* a run returned in which one task was skipped behind a task whose body ran
\* and failed
C21_Witness ==
    /\ opc = "returned"
    /\ \E n \in Funcs, d \in Funcs :
          /\ get_status(ctx, n) = "skipped"
          /\ d \in invoked
          /\ Err("dependency_failed_skipping_task", d) \in Range(get_errors(ctx, n))

\* C22: entries appear in the result map in execution order: every task
\* started before the latest one has its entry, so a later task's entry is
\* never present while an earlier one's is absent, and the earlier entry is
\* there before the later one is first written.
C22_EntriesInExecutionOrder ==
    /\ \A i \in DOMAIN started :
          i < Len(started) => has_result(ctx, started[i])
    /\ \A i \in DOMAIN started, j \in DOMAIN started :
          (i < j /\ has_result(ctx, started[j])) => has_result(ctx, started[i])

\* the second task is about to write its entry, the first one having
\* exceeded its deadline
C22_Witness ==
    /\ Len(started) = 2
    /\ started[1] \in circuited
    /\ wpc = "store"
    /\ has_result(ctx, started[1])
    /\ ~has_result(ctx, started[2])

\* C24: when start() returns, every task that was started has the status
\* done or skipped; none is left in_progress.
C24_StartedTasksTerminal ==
    opc = "returned" =>
        \A n \in Range(started) : get_status(ctx, n) \in {"done", "skipped"}

\* C25: a violation report was created for a task only if the task's entry
\* in the returned result map is a successful record with is_violation true.
C25_ReportOnlyForSuccessfulViolation ==
    opc = "returned" =>
        \A n \in DOMAIN posts :
           "created" \in Range(posts[n]) =>
               /\ GoodEntry(ctx, n)
               /\ ctx.results[n].is_violation

\* task name t is listed under mapping[f][c]
Listed(framework_map, f, c, t) ==
    \E i \in DOMAIN framework_map :
       /\ framework_map[i].framework = f
       /\ \E j \in DOMAIN framework_map[i].controls :
             /\ framework_map[i].controls[j].control_id = c
             /\ t \in Range(framework_map[i].controls[j].insights)

ListedAnywhere(framework_map, t) ==
    \E f \in Frameworks, c \in ControlIds : Listed(framework_map, f, c, t)

\* C23: {framework: f, control_id: c} is in get_controls(t) exactly when t is
\* listed under mapping[f][c]; a name listed nowhere resolves to the empty
\* list; a lookup returns what the resolver holds and leaves it unchanged.
C23_LookupIsInverse ==
    /\ \A t \in DepNames :
          /\ \A e \in Range(get_controls(registry, t)) :
                e.framework \in Frameworks /\ e.control_id \in ControlIds
          /\ \A f \in Frameworks, c \in ControlIds :
                (ControlRef(f, c) \in Range(get_controls(registry, t)))
                   <=> Listed(registry.framework_map, f, c, t)
          /\ ~ListedAnywhere(registry.framework_map, t) =>
                get_controls(registry, t) = <<>>
    /\ observed # <<>> =>
          /\ observed[1].context = registry
          /\ observed[1].record = get_controls(registry, observed[1].name)
          /\ \A f \in Frameworks, c \in ControlIds :
                (ControlRef(f, c) \in Range(observed[1].record))
                   <=> Listed(registry.framework_map, f, c, observed[1].name)

\* a lookup of a task listed under a control of each framework
C23_Witness ==
    /\ observed # <<>>
    /\ Len(observed[1].record) >= Cardinality(Frameworks)
    /\ \A f \in Frameworks :
          \E c \in ControlIds :
             /\ Listed(registry.framework_map, f, c, observed[1].name)
             /\ ControlRef(f, c) \in Range(observed[1].record)

====
